---- MODULE Spec2Model ----
(***************************************************************************)
(* Model of the in-memory index layer of SkillVerse:                       *)
(*   BACKEND/models/data_structures.py  HashMap, MaxHeap, Queue, Trie      *)
(*   BACKEND/services/managers.py       ServiceManager (featured cache),   *)
(*                                      SearchEngine (autocomplete)        *)
(* Every object is a variable holding a record of its fields; every        *)
(* method is an operator on that record and an action applying it.         *)
(***************************************************************************)
EXTENDS Integers, Sequences, FiniteSets, TLC

VARIABLES
    hashmap,    \* HashMap: [capacity, size, buckets]
    shadow,     \* ghost: the key -> value mapping a dict would hold
    hop,        \* ghost: outcome of the last HashMap operation
    hgot,       \* ghost: the last get(key, default): <<key, default, result>>
    maxheap,    \* MaxHeap: [heap, counter]
    hret,       \* ghost: outcome of the last MaxHeap operation
    nlArgs,     \* MaxHeap.nlargest: the call's arguments [n, iterable]
    nlResult,   \* MaxHeap.nlargest: <<"pending">> or <<"done", result>>
    queue,      \* Queue: [front, rear, size] and the _QueueNode objects alive
    fifo,       \* ghost: the values enqueued and not yet dequeued, oldest first
    qret,       \* ghost: outcome of the last Queue operation
    trie,       \* Trie: [nodes, word_count]
    terms,      \* ghost: lowercased term -> <<insertions, last word inserted>>
    tret,       \* ghost: the last Trie operation, its arguments and result
    catalog,    \* the Service table: rows [title, tags, score, visible]
    now,        \* datetime.now(), in seconds
    ticks,      \* ghost: number of clock advances so far
    engine,     \* SearchEngine: [suggestions_cache, trie, trie_built_at]
    gen,        \* ghost: number of _build_trie runs so far
    cacheGen,   \* ghost: cache key -> value of gen when its entry was stored
    eret,       \* ghost: the last SearchEngine call and its result
    manager,    \* ServiceManager: [cache]
    fret,       \* ghost: the last ServiceManager operation and its result
    basis,      \* ghost: limit -> the Service table its cached list was made of
    threads     \* request threads inside get_autocomplete_suggestions

hashmapVars == <<hashmap, shadow, hop, hgot>>
heapVars == <<maxheap, hret>>
topnVars == <<nlArgs, nlResult>>
queueVars == <<queue, fifo, qret>>
trieVars == <<trie, terms, tret>>
envVars == <<catalog, now, ticks>>
engineVars == <<engine, gen, cacheGen, eret>>
managerVars == <<manager, fret, basis>>
threadVars == <<threads>>
appVars == <<catalog, now, ticks, engine, gen, cacheGen, eret, manager, fret,
             basis, threads>>
structVars == <<hashmapVars, heapVars, topnVars, queueVars, trieVars>>
exceptHashMap == <<heapVars, topnVars, queueVars, trieVars, appVars>>
exceptHeap == <<hashmapVars, topnVars, queueVars, trieVars, appVars>>
exceptTopN == <<hashmapVars, heapVars, queueVars, trieVars, appVars>>
exceptQueue == <<hashmapVars, heapVars, topnVars, trieVars, appVars>>
exceptTrie == <<hashmapVars, heapVars, topnVars, queueVars, appVars>>
vars == <<hashmap, shadow, hop, hgot, maxheap, hret, nlArgs, nlResult,
          queue, fifo, qret, trie, terms, tret,
          catalog, now, ticks, engine, gen, cacheGen, eret, manager, fret,
          basis, threads>>

(***************************************************************************)
(* Bounds of the model                                                     *)
(***************************************************************************)
\* keys 1..MaxColdKey are only ever written with value 1
MaxColdKey == 11
\* values written to the two colliding keys 0 and INITIAL_CAPACITY
MaxVal == 2
\* priorities are 1..MaxPrio
MaxPrio == 3
\* inserts into the heap over its lifetime
MaxInserts == 6
\* length of the iterable given to nlargest
MaxIterable == 4
\* _QueueNode objects alive at a time, and the values 1..MaxQVal enqueued
MaxNodes == 4
MaxQVal == 2
\* inserts into the trie over its lifetime, and the limits 0..MaxLimit asked
MaxTrieInserts == 5
MaxLimit == 2
\* entries held by the heap while the empty heap and queue are exercised
MaxHeld == 2
\* rows of the Service table, and clock advances
MaxServices == 2
MaxTicks == 1
\* entries put into the table before it is cleared, and runs of _build_trie
MaxFill == 13
MaxBuilds == 2
\* entries of the table that grows
MaxLoad == 13

Range(f) == {f[i] : i \in DOMAIN f}

(***************************************************************************)
(* 1. HashMap                                                              *)
(***************************************************************************)
INITIAL_CAPACITY == 16
\* LOAD_FACTOR_THRESHOLD = 0.75 as the ratio ThresholdNum / ThresholdDen
ThresholdNum == 3
ThresholdDen == 4

\* _HashNode: a chain is the sequence of <<key, value>> nodes from its head
HashNode(key, value) == <<key, value>>

EmptyBuckets(cap) == [i \in 0..(cap - 1) |-> <<>>]

\* HashMap.__init__
HashMapInit ==
    [capacity |-> INITIAL_CAPACITY, size |-> 0,
     buckets |-> EmptyBuckets(INITIAL_CAPACITY)]

\* HashMap._hash for small non-negative int keys: hash(k) = k
Hash(m, key) == key % m.capacity

\* position of the first node of the chain holding key, 0 when there is none
RECURSIVE ChainScan(_, _, _)
ChainScan(chain, key, i) ==
    IF i > Len(chain) THEN 0
    ELSE IF chain[i][1] = key THEN i
    ELSE ChainScan(chain, key, i + 1)

\* the nodes of all chains, bucket by bucket, each chain from its head
RECURSIVE AllNodes(_, _)
AllNodes(m, i) ==
    IF i >= m.capacity THEN <<>>
    ELSE m.buckets[i] \o AllNodes(m, i + 1)

RECURSIVE SetItem(_, _, _)
RECURSIVE Reinsert(_, _, _)

\* the loop of _resize: self[node.key] = node.value for every old node
Reinsert(m, nodes, i) ==
    IF i > Len(nodes) THEN m
    ELSE Reinsert(SetItem(m, nodes[i][1], nodes[i][2]), nodes, i + 1)

\* _resize that rehashes only the head node of every old chain
ResizeHeadsOnly(m) ==
    LET heads == [i \in 0..(m.capacity - 1) |->
                    IF m.buckets[i] = <<>> THEN <<>> ELSE <<m.buckets[i][1]>>]
    IN  Reinsert([capacity |-> m.capacity * 2, size |-> 0,
                  buckets |-> EmptyBuckets(m.capacity * 2)],
                 AllNodes([m EXCEPT !.buckets = heads], 0), 1)

\* HashMap._resize
Resize(m) ==
    Reinsert([capacity |-> m.capacity * 2, size |-> 0,
              buckets |-> EmptyBuckets(m.capacity * 2)],
             AllNodes(m, 0), 1)

\* __setitem__ that links a new node without looking for the key
SetItemNoScan(m, key, value) ==
    LET index == Hash(m, key)
        m1 == [m EXCEPT !.buckets[index] = <<HashNode(key, value)>> \o @,
                        !.size = @ + 1]
    IN  IF m1.size * ThresholdDen > ThresholdNum * m1.capacity
        THEN Resize(m1)
        ELSE m1

\* HashMap.__setitem__
SetItem(m, key, value) ==
    LET index == Hash(m, key)
        pos == ChainScan(m.buckets[index], key, 1)
    IN  IF pos # 0
        THEN [m EXCEPT !.buckets[index][pos] = HashNode(key, value)]
        ELSE LET m1 == [m EXCEPT
                          !.buckets[index] = <<HashNode(key, value)>> \o @,
                          !.size = @ + 1]
             IN  IF m1.size * ThresholdDen > ThresholdNum * m1.capacity
                 THEN Resize(m1)
                 ELSE m1

\* HashMap.__getitem__: <<"ok", value>> or <<"KeyError">>
GetItem(m, key) ==
    LET index == Hash(m, key)
        pos == ChainScan(m.buckets[index], key, 1)
    IN  IF pos # 0 THEN <<"ok", m.buckets[index][pos][2]>> ELSE <<"KeyError">>

\* HashMap.__contains__
Contains(m, key) ==
    ChainScan(m.buckets[Hash(m, key)], key, 1) # 0

RemoveAt(chain, pos) ==
    SubSeq(chain, 1, pos - 1) \o SubSeq(chain, pos + 1, Len(chain))

\* HashMap.__delitem__ raises KeyError exactly when DelFound is false
DelFound(m, key) == ChainScan(m.buckets[Hash(m, key)], key, 1) # 0

\* __delitem__ that unlinks a node only when it is the head of its chain
DelItemHeadOnly(m, key) ==
    LET index == Hash(m, key)
        pos == ChainScan(m.buckets[index], key, 1)
    IN  [m EXCEPT !.buckets[index] = IF pos = 1 THEN Tail(@) ELSE @,
                  !.size = @ - 1]

\* HashMap.__delitem__ when the key is found
DelItem(m, key) ==
    LET index == Hash(m, key)
        pos == ChainScan(m.buckets[index], key, 1)
    IN  [m EXCEPT !.buckets[index] = RemoveAt(@, pos), !.size = @ - 1]

\* get that looks at the first node of the bucket's chain only
GetDefaultHeadOnly(m, key, default) ==
    LET chain == m.buckets[Hash(m, key)]
    IN  IF chain # <<>> /\ chain[1][1] = key THEN chain[1][2] ELSE default

\* HashMap.get
GetDefault(m, key, default) ==
    IF GetItem(m, key)[1] = "ok" THEN GetItem(m, key)[2] ELSE default

\* clear that empties the table and keeps the bucket count it has
ClearMapKeepCapacity(m) ==
    [capacity |-> m.capacity, size |-> 0, buckets |-> EmptyBuckets(m.capacity)]

\* HashMap.clear
ClearMap(m) == HashMapInit

\* HashMap.__len__
MapLen(m) == m.size

\* HashMap.items
MapItems(m) == AllNodes(m, 0)

ColdKeys == 1..MaxColdKey
HotKeys == {0, INITIAL_CAPACITY}
Keys == ColdKeys \cup HotKeys
\* the (key, value) pairs the model writes
Writes == (ColdKeys \X {1}) \cup (HotKeys \X (1..MaxVal))

MapPut(f, key, value) ==
    [k \in DOMAIN f \cup {key} |-> IF k = key THEN value ELSE f[k]]
MapDrop(f, key) == [k \in DOMAIN f \ {key} |-> f[k]]
EmptyFn == [k \in {} |-> 0]

InitHashMap ==
    /\ hashmap = HashMapInit
    /\ shadow = EmptyFn
    /\ hop = "init"
    /\ hgot = <<>>

\* hashmap[key] = value
HSet(key, value) ==
    /\ hashmap' = SetItem(hashmap, key, value)
    /\ shadow' = MapPut(shadow, key, value)
    /\ hop' = "set"
    /\ UNCHANGED <<hgot, exceptHashMap>>

\* del hashmap[key]
HDel(key) ==
    IF DelFound(hashmap, key)
    THEN /\ hashmap' = DelItem(hashmap, key)
         /\ shadow' = MapDrop(shadow, key)
         /\ hop' = "delete"
         /\ UNCHANGED <<hgot, exceptHashMap>>
    ELSE /\ hop' = "delete_KeyError"
         /\ UNCHANGED <<hashmap, shadow, hgot, exceptHashMap>>

\* hashmap.clear()
HClear ==
    /\ hashmap' = ClearMap(hashmap)
    /\ shadow' = EmptyFn
    /\ hop' = "clear"
    /\ UNCHANGED <<hgot, exceptHashMap>>

\* the keys 1..MaxColdKey, each alone in its bucket, fill the table: they
\* are set in ascending order and deleted in descending order
NextToSet(key) ==
    key \in HotKeys \/ key = 1 \/ Contains(hashmap, key - 1)
LastSet(key) ==
    key \in HotKeys \/ ~Contains(hashmap, key + 1)

NextHashMap ==
    \/ \E w \in Writes : NextToSet(w[1]) /\ HSet(w[1], w[2])
    \/ \E k \in Keys : LastSet(k) /\ HDel(k)
    \/ HClear

\* the keys of the calls below: 0, 16 and 32 share bucket 0, 1 does not
OpKeys == {0, INITIAL_CAPACITY, 2 * INITIAL_CAPACITY, 1}
\* the defaults given to get: one that is no stored value, one that is
Defaults == {0, 1}

\* hashmap.get(key, default)
HGet(key, default) ==
    /\ hgot' = <<key, default, GetDefault(hashmap, key, default)>>
    /\ hop' = "get"
    /\ UNCHANGED <<hashmap, shadow, exceptHashMap>>

NextHashOps ==
    \/ \E k \in OpKeys, v \in 1..MaxVal : HSet(k, v)
    \/ \E k \in OpKeys : HDel(k)
    \/ HClear
    \/ \E k \in OpKeys, d \in Defaults : HGet(k, d)

(***************************************************************************)
(* 1a. HashMap growing                                                     *)
(* The keys are the multiples of 8, set in ascending order, so that they   *)
(* share buckets at every capacity reached; the key set last is the one    *)
(* deleted.                                                                *)
(***************************************************************************)
\* the n-th key
LoadKey(n) == 8 * n

\* hashmap[key] = 1 for the next key
LoadInsert ==
    /\ MapLen(hashmap) < MaxLoad
    /\ HSet(LoadKey(MapLen(hashmap) + 1), 1)

\* hashmap[key] = value for the first key, present or not
LoadUpdate(value) == HSet(LoadKey(1), value)

\* del hashmap[key] for the key set last, or for the next key (KeyError)
LoadDelete(absent) ==
    /\ MapLen(hashmap) > 0
    /\ HDel(LoadKey(MapLen(hashmap) + (IF absent THEN 1 ELSE 0)))

NextLoad ==
    \/ LoadInsert
    \/ \E v \in 1..MaxVal : LoadUpdate(v)
    \/ \E a \in BOOLEAN : LoadDelete(a)
    \/ HClear

(***************************************************************************)
(* 2. MaxHeap                                                              *)
(***************************************************************************)
\* the heap array is 0-indexed in the source
At(h, i) == h[i + 1]

\* MaxHeap.__init__
MaxHeapInit == [heap |-> <<>>, counter |-> 0]

\* MaxHeap._swap
Swap(h, i, j) ==
    [h EXCEPT ![i + 1] = At(h, j), ![j + 1] = At(h, i)]

\* _heapify_up with "if" for "while": at most one swap
HeapifyUpOnce(h, index) ==
    IF index > 0
    THEN LET parent == (index - 1) \div 2
         IN  IF At(h, index)[1] > At(h, parent)[1]
             THEN Swap(h, index, parent)
             ELSE h
    ELSE h

\* MaxHeap._heapify_up
RECURSIVE HeapifyUp(_, _)
HeapifyUp(h, index) ==
    IF index > 0
    THEN LET parent == (index - 1) \div 2
         IN  IF At(h, index)[1] > At(h, parent)[1]
             THEN HeapifyUp(Swap(h, index, parent), parent)
             ELSE h
    ELSE h

\* _heapify_down that never looks at the right child
RECURSIVE HeapifyDownLeftOnly(_, _)
HeapifyDownLeftOnly(h, index) ==
    LET size == Len(h)
        left == 2 * index + 1
        largest == IF left < size /\ At(h, left)[1] > At(h, index)[1]
                   THEN left ELSE index
    IN  IF largest = index THEN h
        ELSE HeapifyDownLeftOnly(Swap(h, index, largest), largest)

\* MaxHeap._heapify_down
RECURSIVE HeapifyDown(_, _)
HeapifyDown(h, index) ==
    LET size == Len(h)
        left == 2 * index + 1
        right == 2 * index + 2
        l1 == IF left < size /\ At(h, left)[1] > At(h, index)[1]
              THEN left ELSE index
        largest == IF right < size /\ At(h, right)[1] > At(h, l1)[1]
                   THEN right ELSE l1
    IN  IF largest = index THEN h
        ELSE HeapifyDown(Swap(h, index, largest), largest)

\* MaxHeap.insert
Insert(H, item, priority) ==
    LET appended == Append(H.heap, <<priority, H.counter, item>>)
    IN  [heap |-> HeapifyUp(appended, Len(appended) - 1),
         counter |-> H.counter + 1]

\* MaxHeap.insert with priority None: the item is its own priority
InsertDefault(H, item) == Insert(H, item, item)

\* MaxHeap.extract_max on a non-empty heap: the entry popped
ExtractedEntry(H) == At(Swap(H.heap, 0, Len(H.heap) - 1), Len(H.heap) - 1)

\* MaxHeap.extract_max on a non-empty heap: the heap left behind
ExtractMax(H) ==
    LET swapped == Swap(H.heap, 0, Len(H.heap) - 1)
        popped == SubSeq(swapped, 1, Len(swapped) - 1)
    IN  [H EXCEPT !.heap = IF popped # <<>> THEN HeapifyDown(popped, 0)
                           ELSE popped]

\* MaxHeap.peek: <<"ok", item>> or <<"IndexError">>
HeapPeek(H) ==
    IF H.heap = <<>> THEN <<"IndexError">> ELSE <<"ok", At(H.heap, 0)[3]>>

\* MaxHeap.size / __len__
HeapSize(H) == Len(H.heap)

\* MaxHeap.is_empty
HeapIsEmpty(H) == Len(H.heap) = 0

Min(a, b) == IF a < b THEN a ELSE b

\* nlargest, first loop: heap.insert(item, key(item)) for item in iterable
RECURSIVE InsertAll(_, _, _, _)
InsertAll(H, iterable, key, i) ==
    IF i > Len(iterable) THEN H
    ELSE InsertAll(Insert(H, iterable[i], key[iterable[i]]), iterable, key,
                   i + 1)

\* nlargest, second loop: result.append(heap.extract_max()), k times
RECURSIVE ExtractTimes(_, _, _)
ExtractTimes(H, k, result) ==
    IF k <= 0 THEN result
    ELSE ExtractTimes(ExtractMax(H), k - 1,
                      Append(result, ExtractedEntry(H)[3]))

\* MaxHeap.nlargest(n, iterable, key)
NLargest(n, iterable, key) ==
    LET H == InsertAll(MaxHeapInit, iterable, key, 1)
    IN  ExtractTimes(H, Min(n, HeapSize(H)), <<>>)

\* MaxHeap.nlargest(n, iterable) with key None: key = lambda x: x
NLargestDefault(n, iterable) ==
    NLargest(n, iterable, [x \in Range(iterable) |-> x])

Prios == 1..MaxPrio

InitHeap ==
    /\ maxheap = MaxHeapInit
    /\ hret = <<"init">>

\* heap.insert(item)
HeapInsert(item) ==
    /\ maxheap.counter < MaxInserts
    /\ maxheap' = InsertDefault(maxheap, item)
    /\ hret' = <<"insert">>
    /\ UNCHANGED exceptHeap

\* heap.extract_max(); hret keeps the whole entry whose item is returned
HeapExtractMax ==
    IF maxheap.heap = <<>>
    THEN /\ hret' = <<"IndexError">>
         /\ UNCHANGED <<maxheap, exceptHeap>>
    ELSE /\ maxheap' = ExtractMax(maxheap)
         /\ hret' = <<"extract_max", ExtractedEntry(maxheap)>>
         /\ UNCHANGED exceptHeap

\* heap.peek()
HPeek ==
    /\ hret' = <<"peek">> \o HeapPeek(maxheap)
    /\ UNCHANGED <<maxheap, exceptHeap>>

NextHeap ==
    \/ \E i \in Prios : HeapInsert(i)
    \/ HeapExtractMax
    \/ HPeek

(***************************************************************************)
(* 2a. MaxHeap.nlargest as a function of its arguments                     *)
(***************************************************************************)
RECURSIVE SeqsUpTo(_, _)
SeqsUpTo(S, n) ==
    IF n = 0 THEN {<<>>}
    ELSE LET shorter == SeqsUpTo(S, n - 1)
         IN  shorter \cup {Append(q, x) : q \in shorter, x \in S}

\* the iterable of MaxHeap.nlargest(3, [3,1,4,1,5,9,2,6])
ExampleIterable == <<3, 1, 4, 1, 5, 9, 2, 6>>

Iterables == SeqsUpTo(Prios, MaxIterable) \cup {ExampleIterable}
Counts == (0 - 1)..(MaxIterable + 1)

NoCall == [n |-> 0, iterable |-> <<>>]

InitTopN ==
    /\ nlArgs = NoCall
    /\ nlResult = <<"pending">>

\* the call MaxHeap.nlargest(n, iterable) is made
NlCall(n, iterable) ==
    /\ nlResult = <<"pending">>
    /\ nlArgs = NoCall
    /\ nlArgs' = [n |-> n, iterable |-> iterable]
    /\ nlResult' = <<"done", NLargestDefault(n, iterable)>>
    /\ UNCHANGED exceptTopN

\* the caller drops the result
NlReset ==
    /\ nlResult # <<"pending">>
    /\ nlArgs' = NoCall
    /\ nlResult' = <<"pending">>
    /\ UNCHANGED exceptTopN

NextTopN ==
    \/ \E n \in Counts, it \in Iterables : NlCall(n, it)
    \/ NlReset

(***************************************************************************)
(* 3. Queue                                                                *)
(***************************************************************************)
\* the null reference
None == 0

\* Queue.__init__; nodes maps the reference of every live _QueueNode to its
\* fields [value, next]
QueueInit ==
    [front |-> None, rear |-> None, size |-> 0, nodes |-> EmptyFn]

\* references reachable from ref along next links
RECURSIVE Reach(_, _, _)
Reach(nodes, ref, seen) ==
    IF ref = None \/ ref \in seen \/ ref \notin DOMAIN nodes THEN seen
    ELSE Reach(nodes, nodes[ref].next, seen \cup {ref})

\* objects no longer referenced from the queue are reclaimed
Collect(Q) ==
    LET live == Reach(Q.nodes, Q.front, {}) \cup Reach(Q.nodes, Q.rear, {})
    IN  [Q EXCEPT !.nodes = [r \in live |-> Q.nodes[r]]]

\* the reference of a newly allocated object
NewRef(Q) == CHOOSE r \in 1..(Cardinality(DOMAIN Q.nodes) + 1) :
                 /\ r \notin DOMAIN Q.nodes
                 /\ \A r2 \in 1..(r - 1) : r2 \in DOMAIN Q.nodes

\* _QueueNode.__init__
QueueNode(value) == [value |-> value, next |-> None]

\* Queue.enqueue
Enqueue(Q, value) ==
    LET new_node == NewRef(Q)
        Q1 == [Q EXCEPT !.nodes = MapPut(@, new_node, QueueNode(value))]
    IN  IF Q.rear = None
        THEN [Q1 EXCEPT !.front = new_node, !.rear = new_node,
                        !.size = @ + 1]
        ELSE [Q1 EXCEPT !.nodes[Q.rear].next = new_node,
                        !.rear = new_node, !.size = @ + 1]

\* Queue.dequeue that leaves rear alone when the queue becomes empty
DequeueKeepRear(Q) ==
    Collect([Q EXCEPT !.front = Q.nodes[Q.front].next, !.size = @ - 1])

\* Queue.dequeue on a queue whose front is not None: the queue left behind
Dequeue(Q) ==
    LET Q1 == [Q EXCEPT !.front = Q.nodes[Q.front].next]
        Q2 == IF Q1.front = None THEN [Q1 EXCEPT !.rear = None] ELSE Q1
    IN  Collect([Q2 EXCEPT !.size = @ - 1])

\* Queue.peek: <<"ok", value>> or <<"IndexError">>
QueuePeek(Q) ==
    IF Q.front = None THEN <<"IndexError">>
    ELSE <<"ok", Q.nodes[Q.front].value>>

\* Queue.is_empty
QueueIsEmpty(Q) == Q.front = None

\* Queue.to_list: the loop from node
RECURSIVE ToListFrom(_, _)
ToListFrom(Q, node) ==
    IF node = None THEN <<>>
    ELSE <<Q.nodes[node].value>> \o ToListFrom(Q, Q.nodes[node].next)

\* Queue.to_list
ToList(Q) == ToListFrom(Q, Q.front)

\* Queue.__len__
QueueLen(Q) == Q.size

QVals == 1..MaxQVal

InitQueue ==
    /\ queue = QueueInit
    /\ fifo = <<>>
    /\ qret = <<"init">>

\* queue.enqueue(value)
QEnqueue(value) ==
    /\ Cardinality(DOMAIN queue.nodes) < MaxNodes
    /\ queue' = Enqueue(queue, value)
    /\ fifo' = Append(fifo, value)
    /\ qret' = <<"enqueue">>
    /\ UNCHANGED exceptQueue

\* queue.append(value): alias of enqueue
QAppend(value) ==
    /\ Cardinality(DOMAIN queue.nodes) < MaxNodes
    /\ queue' = Enqueue(queue, value)
    /\ fifo' = Append(fifo, value)
    /\ qret' = <<"append">>
    /\ UNCHANGED exceptQueue

\* dequeue that counts an element off an empty queue before it raises
QDequeueCountsDown ==
    IF queue.front = None
    THEN /\ queue' = [queue EXCEPT !.size = @ - 1]
         /\ qret' = <<"dequeue", "IndexError">>
         /\ UNCHANGED <<fifo, exceptQueue>>
    ELSE /\ queue' = Dequeue(queue)
         /\ qret' = <<"dequeue", "ok", queue.nodes[queue.front].value>>
         /\ fifo' = IF fifo = <<>> THEN fifo ELSE Tail(fifo)
         /\ UNCHANGED exceptQueue

\* queue.dequeue()
QDequeue ==
    IF queue.front = None
    THEN /\ qret' = <<"dequeue", "IndexError">>
         /\ UNCHANGED <<queue, fifo, exceptQueue>>
    ELSE /\ queue' = Dequeue(queue)
         /\ qret' = <<"dequeue", "ok", queue.nodes[queue.front].value>>
         /\ fifo' = IF fifo = <<>> THEN fifo ELSE Tail(fifo)
         /\ UNCHANGED exceptQueue

\* queue.peek()
QPeek ==
    /\ qret' = <<"peek">> \o QueuePeek(queue)
    /\ UNCHANGED <<queue, fifo, exceptQueue>>

\* queue.to_list()
QToList ==
    /\ qret' = <<"to_list", ToList(queue)>>
    /\ UNCHANGED <<queue, fifo, exceptQueue>>

NextQueue ==
    \/ \E v \in QVals : QEnqueue(v)
    \/ \E v \in QVals : QAppend(v)
    \/ QDequeue
    \/ QPeek
    \/ QToList

(***************************************************************************)
(* 4a. A MaxHeap and a Queue used one after the other                      *)
(* The two objects share no state: the heap is used first, holding at most *)
(* MaxHeld entries, and the queue once extract_max has failed on the empty *)
(* heap.                                                                   *)
(***************************************************************************)
\* the last heap operation raised IndexError
HeapFailed ==
    \/ hret[1] = "IndexError"
    \/ hret[1] = "peek" /\ hret[2] = "IndexError"

\* the last queue operation raised IndexError
QueueFailed == qret[1] \in {"dequeue", "peek"} /\ qret[2] = "IndexError"

\* the last heap operation was an extract_max that raised IndexError
ExtractFailed == Len(hret) = 1 /\ hret[1] = "IndexError"

\* the queue has not been used yet
QueueUnused == qret = <<"init">>

EHeapInsert(item) ==
    /\ QueueUnused
    /\ Len(maxheap.heap) < MaxHeld
    /\ HeapInsert(item)

EHeapExtractMax == QueueUnused /\ HeapExtractMax

EHeapPeek == QueueUnused /\ HPeek

EQEnqueue(value) == ExtractFailed /\ QEnqueue(value)

EQDequeue == ExtractFailed /\ QDequeue

EQPeek == ExtractFailed /\ QPeek

NextEmpty ==
    \/ \E i \in Prios : EHeapInsert(i)
    \/ EHeapExtractMax
    \/ EHeapPeek
    \/ \E v \in QVals : EQEnqueue(v)
    \/ EQDequeue
    \/ EQPeek

(***************************************************************************)
(* 4. Trie                                                                 *)
(* A string is the sequence of its code points (65 'A', 66 'B', 97 'a',    *)
(* 98 'b', 99 'c', 32 ' '). A node is named by the path of characters      *)
(* leading to it from the root: the children of node p are the nodes       *)
(* Append(p, c).                                                           *)
(***************************************************************************)
\* str.lower() on one ASCII character
LowerChar(c) == IF c >= 65 /\ c <= 90 THEN c + 32 ELSE c

\* str.lower()
Lower(word) == [i \in 1..Len(word) |-> LowerChar(word[i])]

\* the characters str.strip() removes
Whitespace == {9, 10, 11, 12, 13, 32}

\* not word or not word.strip()
IsBlank(word) == \A i \in 1..Len(word) : word[i] \in Whitespace

\* _TrieNode.__init__; the word <<>> stands for original_word = None
TrieNode == [is_end |-> FALSE, original_word |-> <<>>, frequency |-> 0]

\* Trie.__init__
TrieInit == [nodes |-> (<<>> :> TrieNode), word_count |-> 0]

\* node.children.keys()
Children(T, path) ==
    {q[Len(q)] : q \in {r \in DOMAIN T.nodes :
                           /\ Len(r) = Len(path) + 1
                           /\ SubSeq(r, 1, Len(path)) = path}}

\* the loop of insert: one child per character, created when missing
RECURSIVE Descend(_, _, _)
Descend(nodes, lowered, i) ==
    IF i > Len(lowered) THEN nodes
    ELSE LET path == SubSeq(lowered, 1, i)
         IN  Descend(IF path \in DOMAIN nodes THEN nodes
                     ELSE MapPut(nodes, path, TrieNode), lowered, i + 1)

\* insert that counts a word every time it is inserted
TrieInsertCountsAll(T, word) ==
    IF IsBlank(word) THEN T
    ELSE LET path == Lower(word)
             nodes == Descend(T.nodes, path, 1)
             node == nodes[path]
         IN  [nodes |-> [nodes EXCEPT ![path] =
                            [is_end |-> TRUE,
                             original_word |-> word,
                             frequency |-> node.frequency + 1]],
              word_count |-> T.word_count + 1]

\* Trie.insert
TrieInsert(T, word) ==
    IF IsBlank(word) THEN T
    ELSE LET path == Lower(word)
             nodes == Descend(T.nodes, path, 1)
             node == nodes[path]
         IN  [nodes |-> [nodes EXCEPT ![path] =
                            [is_end |-> TRUE,
                             original_word |-> word,
                             frequency |-> node.frequency + 1]],
              word_count |-> IF node.is_end THEN T.word_count
                             ELSE T.word_count + 1]

\* search that does not test is_end of the node it arrives at
TrieSearchAnyNode(T, word) ==
    IF word = <<>> THEN FALSE
    ELSE Lower(word) \in DOMAIN T.nodes

\* Trie.search
TrieSearch(T, word) ==
    IF word = <<>> THEN FALSE
    ELSE IF Lower(word) \notin DOMAIN T.nodes THEN FALSE
    ELSE T.nodes[Lower(word)].is_end

\* starts_with that walks the characters of prefix as given, not lowercased
StartsWithNoLower(T, prefix) ==
    IF prefix = <<>> THEN FALSE
    ELSE prefix \in DOMAIN T.nodes

\* Trie.starts_with
StartsWith(T, prefix) ==
    IF prefix = <<>> THEN FALSE
    ELSE Lower(prefix) \in DOMAIN T.nodes

\* sorted(node.children.keys())
RECURSIVE Sorted(_)
Sorted(S) ==
    IF S = {} THEN <<>>
    ELSE LET m == CHOOSE x \in S : \A y \in S : x <= y
         IN  <<m>> \o Sorted(S \ {m})

RECURSIVE CollectWords(_, _, _, _)
RECURSIVE CollectChildren(_, _, _, _, _, _)

\* the for loop of _collect_words over the sorted children
CollectChildren(T, path, chars, i, results, limit) ==
    IF i > Len(chars) THEN results
    ELSE IF Len(results) >= limit THEN results
    ELSE CollectChildren(T, path, chars, i + 1,
             CollectWords(T, Append(path, chars[i]), results, limit), limit)

\* Trie._collect_words; results holds (original_word, frequency) pairs
CollectWords(T, path, results, limit) ==
    IF Len(results) >= limit THEN results
    ELSE LET node == T.nodes[path]
             r1 == IF node.is_end
                   THEN Append(results,
                               <<node.original_word, node.frequency>>)
                   ELSE results
         IN  CollectChildren(T, path, Sorted(Children(T, path)), 1, r1,
                             limit)

\* a sort key that forgets the frequency: len(x[0]) only
KeyLeqLengthOnly(x, y) == Len(x[1]) <= Len(y[1])

\* the sort key (-x[1], len(x[0])) of x is at most that of y
KeyLeq(x, y) ==
    \/ x[2] > y[2]
    \/ x[2] = y[2] /\ Len(x[1]) <= Len(y[1])

\* a sort that is not stable: x goes before the elements whose key equals
\* its own
RECURSIVE PlaceUnstable(_, _)
PlaceUnstable(q, x) ==
    IF q = <<>> THEN <<x>>
    ELSE IF KeyLeq(Head(q), x) /\ ~KeyLeq(x, Head(q))
         THEN <<Head(q)>> \o PlaceUnstable(Tail(q), x)
    ELSE <<x>> \o q

\* place x after every element of the sorted q whose key is at most x's
RECURSIVE PlaceStable(_, _)
PlaceStable(q, x) ==
    IF q = <<>> THEN <<x>>
    ELSE IF KeyLeq(Head(q), x) THEN <<Head(q)>> \o PlaceStable(Tail(q), x)
    ELSE <<x>> \o q

\* results.sort(key=lambda x: (-x[1], len(x[0]))): a stable sort
RECURSIVE SortResults(_, _, _)
SortResults(results, i, sorted) ==
    IF i > Len(results) THEN sorted
    ELSE SortResults(results, i + 1, PlaceStable(sorted, results[i]))

\* results[:limit]
Slice(q, limit) ==
    IF limit >= 0 THEN SubSeq(q, 1, Min(limit, Len(q)))
    ELSE SubSeq(q, 1, Len(q) + limit)

\* get_suggestions without the test of an empty prefix
GetSuggestionsNoGuard(T, prefix, limit) ==
    IF Lower(prefix) \notin DOMAIN T.nodes THEN <<>>
    ELSE LET results == CollectWords(T, Lower(prefix), <<>>, limit * 3)
             sorted == SortResults(results, 1, <<>>)
             top == Slice(sorted, limit)
         IN  [k \in 1..Len(top) |-> top[k][1]]

\* get_suggestions that collects every term below the prefix node
GetSuggestionsWholeSubtree(T, prefix, limit) ==
    IF prefix = <<>> THEN <<>>
    ELSE IF Lower(prefix) \notin DOMAIN T.nodes THEN <<>>
    ELSE LET results == CollectWords(T, Lower(prefix), <<>>,
                                     Cardinality(DOMAIN T.nodes))
             sorted == SortResults(results, 1, <<>>)
             top == Slice(sorted, limit)
         IN  [k \in 1..Len(top) |-> top[k][1]]

\* Trie.get_suggestions
GetSuggestions(T, prefix, limit) ==
    IF prefix = <<>> THEN <<>>
    ELSE IF Lower(prefix) \notin DOMAIN T.nodes THEN <<>>
    ELSE LET results == CollectWords(T, Lower(prefix), <<>>, limit * 3)
             sorted == SortResults(results, 1, <<>>)
             top == Slice(sorted, limit)
         IN  [k \in 1..Len(top) |-> top[k][1]]

\* Trie.__len__
TrieLen(T) == T.word_count

\* the words inserted: a, A, b, aa, ab, Ab, abb, the blank " " and ""
TrieWords ==
    {<<97>>, <<65>>, <<98>>, <<97, 97>>, <<97, 98>>, <<65, 98>>,
     <<97, 98, 98>>, <<32>>, <<>>}
\* the prefixes asked: the words, AB and c
Prefixes == TrieWords \cup {<<65, 66>>, <<99>>}
Limits == 0..MaxLimit

\* insertions recorded in the ghost
RECURSIVE Total(_, _)
Total(f, S) ==
    IF S = {} THEN 0
    ELSE LET k == CHOOSE k \in S : TRUE
         IN  f[k][1] + Total(f, S \ {k})

InitTrie ==
    /\ trie = TrieInit
    /\ terms = EmptyFn
    /\ tret = <<"init">>

\* trie.insert(word)
TInsert(word) ==
    /\ Total(terms, DOMAIN terms) < MaxTrieInserts
    /\ trie' = TrieInsert(trie, word)
    /\ terms' = IF IsBlank(word) THEN terms
                ELSE MapPut(terms, Lower(word),
                            <<(IF Lower(word) \in DOMAIN terms
                               THEN terms[Lower(word)][1] ELSE 0) + 1,
                              word>>)
    /\ tret' = <<"insert", word>>
    /\ UNCHANGED exceptTrie

\* trie.get_suggestions(prefix, limit)
TGetSuggestions(prefix, limit) ==
    /\ tret' = <<"get_suggestions", prefix, limit,
                 GetSuggestions(trie, prefix, limit)>>
    /\ UNCHANGED <<trie, terms, exceptTrie>>

\* the strings looked up: "", a, AB, abb and c
Lookups == {<<>>, <<97>>, <<65, 66>>, <<97, 98, 98>>, <<99>>}

\* trie.search(word)
TSearch(word) ==
    /\ tret' = <<"search", word, TrieSearch(trie, word)>>
    /\ UNCHANGED <<trie, terms, exceptTrie>>

\* trie.starts_with(prefix)
TStartsWith(prefix) ==
    /\ tret' = <<"starts_with", prefix, StartsWith(trie, prefix)>>
    /\ UNCHANGED <<trie, terms, exceptTrie>>

NextTrie ==
    \/ \E w \in TrieWords : TInsert(w)
    \/ \E p \in Prefixes, l \in Limits : TGetSuggestions(p, l)
    \/ \E w \in Lookups : TSearch(w)
    \/ \E p \in Lookups : TStartsWith(p)

(***************************************************************************)
(* 5. The catalog and the clock (external collaborators)                   *)
(***************************************************************************)
\* timedelta.seconds: the seconds field of a non-negative timedelta, which
\* carries whole days in its days field
SECONDS_PER_DAY == 86400
TimedeltaSeconds(delta) == delta % SECONDS_PER_DAY

\* the amounts of time that pass between two requests: five minutes, one
\* second more, and a day
TickSteps == {300, 301, SECONDS_PER_DAY}

\* Service.query.filter_by(is_active=True, is_approved=True).all():
\* positions of the visible rows, in table order
RECURSIVE VisibleFrom(_, _)
VisibleFrom(cat, i) ==
    IF i > Len(cat) THEN <<>>
    ELSE (IF cat[i].visible THEN <<i>> ELSE <<>>) \o VisibleFrom(cat, i + 1)

ActiveApproved(cat) == VisibleFrom(cat, 1)

InitEnv ==
    /\ catalog = <<>>
    /\ now = 1
    /\ ticks = 0

\* time passes
Tick(d) ==
    /\ ticks < MaxTicks
    /\ now' = now + d
    /\ ticks' = ticks + 1
    /\ UNCHANGED <<catalog, engineVars, managerVars, structVars, threadVars>>

(***************************************************************************)
(* 6. ServiceManager: the featured-services cache                          *)
(***************************************************************************)
\* ServiceManager.__init__: _cache_timeout
CACHE_TIMEOUT == 300

\* ServiceManager.__init__: _cache maps a limit to <<cached_data, timestamp>>
ServiceManagerInit == [cache |-> EmptyFn]

\* self._cache.clear()
ClearCache(M) == [M EXCEPT !.cache = EmptyFn]

\* key=lambda s: (s.get_average_rating(), s.get_review_count()), per row
FeaturedKey(cat) == [i \in 1..Len(cat) |-> cat[i].score]

\* get_featured_services: the list computed from the Service table
ComputeFeatured(cat, limit) ==
    NLargest(limit, ActiveApproved(cat), FeaturedKey(cat))

\* get_featured_services: the cached entry is returned
CacheFresh(M, t, limit) ==
    /\ limit \in DOMAIN M.cache
    /\ TimedeltaSeconds(t - M.cache[limit][2]) < CACHE_TIMEOUT

\* ServiceManager.get_featured_services: the list returned
FeaturedResult(M, cat, t, limit) ==
    IF CacheFresh(M, t, limit) THEN M.cache[limit][1]
    ELSE ComputeFeatured(cat, limit)

\* get_featured_services without the store of the computed list
GetFeaturedNoStore(M, cat, t, limit) == M

\* ServiceManager.get_featured_services: the manager after the call
GetFeatured(M, cat, t, limit) ==
    IF CacheFresh(M, t, limit) THEN M
    ELSE [M EXCEPT !.cache = MapPut(@, limit, <<ComputeFeatured(cat, limit), t>>)]

\* the services created: "ab" without tags, "Ab" tagged "aa", both by an
\* admin (approved at once), and "abb" without tags, pending approval
NewServices ==
    {[title |-> <<97, 98>>, tags |-> <<>>, visible |-> TRUE],
     [title |-> <<65, 98>>, tags |-> <<<<97, 97>>>>, visible |-> TRUE],
     [title |-> <<97, 98, 98>>, tags |-> <<>>, visible |-> FALSE]}
FeaturedLimits == 1..MaxLimit
\* add_review accepts 1 <= rating <= 5; the lowest and the highest are given
MIN_RATING == 1
MAX_RATING == 5
Ratings == {MIN_RATING, MAX_RATING}

InitManager ==
    /\ manager = ServiceManagerInit
    /\ fret = [op |-> "init"]
    /\ basis = EmptyFn

\* ServiceManager.create_service: a row without reviews, the cache cleared
CreateService(title, tags, auto_approve) ==
    /\ Len(catalog) < MaxServices
    /\ catalog' = Append(catalog, [title |-> title, tags |-> tags,
                                   score |-> 0, visible |-> auto_approve])
    /\ manager' = ClearCache(manager)
    /\ basis' = EmptyFn
    /\ fret' = [op |-> "create_service"]
    /\ UNCHANGED <<now, ticks, engineVars, structVars, threadVars>>

\* approve_service without its self._cache.clear()
ApproveServiceKeepCache(service_id) ==
    /\ service_id \in 1..Len(catalog)
    /\ catalog' = [catalog EXCEPT ![service_id].visible = TRUE]
    /\ fret' = [op |-> "approve_service"]
    /\ UNCHANGED <<now, ticks, manager, basis, engineVars, structVars,
                   threadVars>>

\* ServiceManager.approve_service(service_id) for an existing service
ApproveService(service_id) ==
    /\ service_id \in 1..Len(catalog)
    /\ catalog' = [catalog EXCEPT ![service_id].visible = TRUE]
    /\ manager' = ClearCache(manager)
    /\ basis' = EmptyFn
    /\ fret' = [op |-> "approve_service"]
    /\ UNCHANGED <<now, ticks, engineVars, structVars, threadVars>>

\* ServiceManager.reject_service(service_id) for an existing service
RejectService(service_id) ==
    /\ service_id \in 1..Len(catalog)
    /\ catalog' = [catalog EXCEPT ![service_id].visible = FALSE]
    /\ manager' = ClearCache(manager)
    /\ basis' = EmptyFn
    /\ fret' = [op |-> "reject_service"]
    /\ UNCHANGED <<now, ticks, engineVars, structVars, threadVars>>

\* ReviewSystem.add_review: the first review of a service, with its rating
AddReview(service_id, rating) ==
    /\ service_id \in 1..Len(catalog)
    /\ catalog[service_id].score = 0
    /\ catalog' = [catalog EXCEPT ![service_id].score = rating]
    /\ manager' = ClearCache(manager)
    /\ basis' = EmptyFn
    /\ fret' = [op |-> "add_review"]
    /\ UNCHANGED <<now, ticks, engineVars, structVars, threadVars>>

\* service_manager.get_featured_services(limit)
GetFeaturedServices(limit) ==
    LET hit == CacheFresh(manager, now, limit)
    IN  /\ manager' = GetFeatured(manager, catalog, now, limit)
        /\ fret' = [op |-> "get_featured_services", limit |-> limit,
                    result |-> FeaturedResult(manager, catalog, now, limit),
                    hit |-> hit,
                    had |-> limit \in DOMAIN manager.cache,
                    age |-> IF limit \in DOMAIN manager.cache
                            THEN now - manager.cache[limit][2] ELSE 0,
                    current |-> IF hit THEN basis[limit] = catalog
                                ELSE TRUE]
        /\ basis' = IF hit THEN basis ELSE MapPut(basis, limit, catalog)
        /\ UNCHANGED <<envVars, engineVars, structVars, threadVars>>

\* the titles given in the edit form: "aa"
EditTitles == {<<97, 97>>}

\* routes.edit (POST) for an existing service: the row is updated and
\* committed; the route makes no call of the ServiceManager
EditService(service_id, title) ==
    /\ service_id \in 1..Len(catalog)
    /\ catalog' = [catalog EXCEPT ![service_id].title = title]
    /\ UNCHANGED <<now, ticks, managerVars, engineVars, structVars,
                   threadVars>>

\* the ages the test of get_featured_services tells apart: the timeout
\* itself, which is no longer fresh, and a day, which timedelta.seconds
\* reads as zero
CacheTickSteps == {CACHE_TIMEOUT, SECONDS_PER_DAY}

NextFeatured ==
    \/ \E d \in CacheTickSteps : Tick(d)
    \/ \E a \in BOOLEAN : CreateService(<<97, 98>>, <<>>, a)
    \/ \E i \in 1..MaxServices : ApproveService(i)
    \/ \E i \in 1..MaxServices : RejectService(i)
    \/ \E i \in 1..MaxServices, r \in Ratings : AddReview(i, r)
    \/ \E l \in FeaturedLimits : GetFeaturedServices(l)

NextEdit ==
    \/ \E d \in CacheTickSteps : Tick(d)
    \/ \E a \in BOOLEAN : CreateService(<<97, 98>>, <<>>, a)
    \/ \E i \in 1..MaxServices : ApproveService(i)
    \/ \E i \in 1..MaxServices : RejectService(i)
    \/ \E i \in 1..MaxServices, r \in Ratings : AddReview(i, r)
    \/ \E l \in FeaturedLimits : GetFeaturedServices(l)
    \/ \E i \in 1..MaxServices, w \in EditTitles : EditService(i, w)

(***************************************************************************)
(* 7. SearchEngine                                                         *)
(***************************************************************************)
\* SearchEngine.__init__: _trie_timeout
TRIE_TIMEOUT == 300

\* SearchEngine.__init__
SearchEngineInit ==
    [suggestions_cache |-> EmptyFn, trie |-> TrieInit, trie_built_at |-> None]

\* the inserts of _build_trie for the tags of one service
RECURSIVE InsertTags(_, _, _)
InsertTags(T, tags, i) ==
    IF i > Len(tags) THEN T
    ELSE InsertTags(TrieInsert(T, tags[i]), tags, i + 1)

\* the loop of _build_trie over the services
RECURSIVE InsertServices(_, _, _, _)
InsertServices(T, cat, rows, i) ==
    IF i > Len(rows) THEN T
    ELSE LET service == cat[rows[i]]
             T1 == TrieInsert(T, service.title)
             T2 == IF service.tags # <<>>
                   THEN InsertTags(T1, service.tags, 1) ELSE T1
         IN  InsertServices(T2, cat, rows, i + 1)

\* _build_trie without its reset of self._trie
BuildTrieNoReset(E, cat, t) ==
    [E EXCEPT !.trie = InsertServices(E.trie, cat, ActiveApproved(cat), 1),
              !.trie_built_at = t]

\* SearchEngine._build_trie
BuildTrie(E, cat, t) ==
    [E EXCEPT !.trie = InsertServices(TrieInit, cat, ActiveApproved(cat), 1),
              !.trie_built_at = t]

\* the test of _ensure_trie_fresh
TrieStale(E, t) ==
    \/ E.trie_built_at = None
    \/ TimedeltaSeconds(t - E.trie_built_at) > TRIE_TIMEOUT

\* SearchEngine._ensure_trie_fresh
EnsureTrieFresh(E, cat, t) ==
    IF TrieStale(E, t) THEN BuildTrie(E, cat, t) ELSE E

\* a minimum-length test that only rejects the empty query
TooShortEmptyOnly(query) == query = <<>>

\* not query or len(query) < 2
TooShort(query) == query = <<>> \/ Len(query) < 2

\* get_autocomplete_suggestions that makes sure the trie is fresh before it
\* looks into the cache
AutocompleteFreshFirst(E, cat, t, query, limit) ==
    IF TooShort(query) THEN E
    ELSE LET E1 == EnsureTrieFresh(E, cat, t)
         IN  IF Lower(query) \in DOMAIN E1.suggestions_cache THEN E1
             ELSE [E1 EXCEPT !.suggestions_cache =
                      MapPut(@, Lower(query),
                             GetSuggestions(E1.trie, query, limit))]

\* SearchEngine.get_autocomplete_suggestions: the engine after the call
Autocomplete(E, cat, t, query, limit) ==
    IF TooShort(query) THEN E
    ELSE IF Lower(query) \in DOMAIN E.suggestions_cache THEN E
    ELSE LET E1 == EnsureTrieFresh(E, cat, t)
             result == GetSuggestions(E1.trie, query, limit)
         IN  [E1 EXCEPT !.suggestions_cache = MapPut(@, Lower(query), result)]

\* SearchEngine.get_autocomplete_suggestions: the list returned
AutocompleteResult(E, cat, t, query, limit) ==
    IF TooShort(query) THEN <<>>
    ELSE IF Lower(query) \in DOMAIN E.suggestions_cache
         THEN E.suggestions_cache[Lower(query)]
    ELSE GetSuggestions(EnsureTrieFresh(E, cat, t).trie, query, limit)

\* the queries asked: "", a, ab, AB, aa
Queries == {<<>>, <<97>>, <<97, 98>>, <<65, 66>>, <<97, 97>>}
EngineLimits == 1..MaxLimit

InitEngine ==
    /\ engine = SearchEngineInit
    /\ gen = 0
    /\ cacheGen = EmptyFn
    /\ eret = [op |-> "init"]

\* search_engine.get_autocomplete_suggestions(query, limit)
GetAutocompleteSuggestions(query, limit) ==
    LET hit == ~TooShort(query) /\ Lower(query) \in DOMAIN engine.suggestions_cache
        rebuilt == ~TooShort(query) /\ ~hit /\ TrieStale(engine, now)
        stored == ~TooShort(query) /\ ~hit
    IN  /\ engine' = Autocomplete(engine, catalog, now, query, limit)
        /\ gen' = IF rebuilt THEN gen + 1 ELSE gen
        /\ cacheGen' = IF stored THEN MapPut(cacheGen, Lower(query), gen')
                       ELSE cacheGen
        /\ eret' = [op |-> "get_autocomplete_suggestions",
                    query |-> query, limit |-> limit,
                    result |-> AutocompleteResult(engine, catalog, now,
                                                  query, limit),
                    hit |-> hit, rebuilt |-> rebuilt,
                    storedGen |-> IF hit THEN cacheGen[Lower(query)]
                                  ELSE gen']
        /\ UNCHANGED <<envVars, managerVars, structVars, threadVars>>

NextEngine ==
    \/ \E d \in TickSteps : Tick(d)
    \/ \E s \in NewServices : CreateService(s.title, s.tags, s.visible)
    \/ \E q \in Queries, l \in EngineLimits : GetAutocompleteSuggestions(q, l)

\* calls of get_autocomplete_suggestions with different limits, on a catalog
\* whose services are approved when created
NextLimits ==
    \/ \E s \in NewServices : CreateService(s.title, s.tags, TRUE)
    \/ \E q \in Queries, l \in EngineLimits : GetAutocompleteSuggestions(q, l)

(***************************************************************************)
(* 8. Concurrent requests to /search/autocomplete                          *)
(* The server handles each request in a thread of its own; the engine is   *)
(* one module-level object shared by all of them, without a lock.  A       *)
(* thread's position is its pc; a switch can happen between any two steps. *)
(***************************************************************************)
Threads == {1, 2}

\* search_autocomplete: get_autocomplete_suggestions(query, limit=5)
ROUTE_LIMIT == 5

\* the queries the concurrent requests ask: ab, aa
ThreadQueries == {<<97, 98>>, <<97, 97>>}

\* a thread outside get_autocomplete_suggestions
IdleThread ==
    [pc |-> "idle", query |-> <<>>, services |-> <<>>, i |-> 0,
     result |-> <<>>, readTrie |-> TrieInit, readCatalog |-> <<>>]

InitThreads == threads = [t \in Threads |-> IdleThread]

\* the body of the loop of _build_trie for one service
InsertService(T, service) ==
    LET T1 == TrieInsert(T, service.title)
    IN  IF service.tags # <<>> THEN InsertTags(T1, service.tags, 1) ELSE T1

\* a request arrives: the length guard and the cache lookup
ThreadCall(t, query) ==
    /\ threads[t].pc = "idle"
    /\ ~TooShort(query)
    /\ IF Lower(query) \in DOMAIN engine.suggestions_cache
       THEN threads' = [threads EXCEPT ![t] =
                [IdleThread EXCEPT !.query = query,
                    !.result = engine.suggestions_cache[Lower(query)]]]
       ELSE threads' = [threads EXCEPT ![t] =
                [IdleThread EXCEPT !.query = query, !.pc = "fresh"]]
    /\ UNCHANGED <<envVars, engineVars, managerVars, structVars>>

\* _ensure_trie_fresh: the test
ThreadFresh(t) ==
    /\ threads[t].pc = "fresh"
    /\ threads' = [threads EXCEPT ![t].pc =
            IF TrieStale(engine, now) THEN "reset" ELSE "suggest"]
    /\ UNCHANGED <<envVars, engineVars, managerVars, structVars>>

\* _build_trie: self._trie = Trie() and the query of the services
ThreadReset(t) ==
    /\ threads[t].pc = "reset"
    /\ engine' = [engine EXCEPT !.trie = TrieInit]
    /\ gen' = gen + 1
    /\ threads' = [threads EXCEPT ![t].pc = "insert",
                                  ![t].services = ActiveApproved(catalog),
                                  ![t].i = 1]
    /\ UNCHANGED <<envVars, cacheGen, eret, managerVars, structVars>>

\* _build_trie: one turn of the loop, on whatever self._trie is now
ThreadInsert(t) ==
    /\ threads[t].pc = "insert"
    /\ threads[t].i <= Len(threads[t].services)
    /\ engine' = [engine EXCEPT !.trie =
            InsertService(@, catalog[threads[t].services[threads[t].i]])]
    /\ threads' = [threads EXCEPT ![t].i = @ + 1]
    /\ UNCHANGED <<envVars, gen, cacheGen, eret, managerVars, structVars>>

\* _build_trie: self._trie_built_at = datetime.now()
ThreadStamp(t) ==
    /\ threads[t].pc = "insert"
    /\ threads[t].i > Len(threads[t].services)
    /\ engine' = [engine EXCEPT !.trie_built_at = now]
    /\ threads' = [threads EXCEPT ![t].pc = "suggest"]
    /\ UNCHANGED <<envVars, gen, cacheGen, eret, managerVars, structVars>>

\* result = self._trie.get_suggestions(query, limit)
ThreadSuggest(t) ==
    /\ threads[t].pc = "suggest"
    /\ threads' = [threads EXCEPT
            ![t].pc = "store",
            ![t].result = GetSuggestions(engine.trie, threads[t].query,
                                         ROUTE_LIMIT),
            ![t].readTrie = engine.trie,
            ![t].readCatalog = catalog]
    /\ UNCHANGED <<envVars, engineVars, managerVars, structVars>>

\* self.suggestions_cache[cache_key] = result; return result
ThreadStore(t) ==
    /\ threads[t].pc = "store"
    /\ engine' = [engine EXCEPT !.suggestions_cache =
            MapPut(@, Lower(threads[t].query), threads[t].result)]
    /\ cacheGen' = MapPut(cacheGen, Lower(threads[t].query), gen)
    /\ threads' = [threads EXCEPT ![t] =
            [IdleThread EXCEPT !.query = threads[t].query,
                               !.result = threads[t].result]]
    /\ UNCHANGED <<envVars, gen, eret, managerVars, structVars>>

\* the catalog is filled before the first request arrives
Publish(service) ==
    /\ \A t \in Threads : threads[t].pc = "idle"
    /\ engine.trie_built_at = None
    /\ engine.suggestions_cache = EmptyFn
    /\ CreateService(service.title, service.tags, service.visible)

NextThreads ==
    \/ \E d \in TickSteps : Tick(d)
    \/ \E s \in NewServices : Publish(s)
    \/ \E t \in Threads, q \in ThreadQueries : ThreadCall(t, q)
    \/ \E t \in Threads : ThreadFresh(t)
    \/ \E t \in Threads : ThreadReset(t)
    \/ \E t \in Threads : ThreadInsert(t)
    \/ \E t \in Threads : ThreadStamp(t)
    \/ \E t \in Threads : ThreadSuggest(t)
    \/ \E t \in Threads : ThreadStore(t)

(***************************************************************************)
(* 9. clear() and _build_trie called again                                 *)
(* The table is filled, by keys 1, 2, 3, ... until it has grown, and       *)
(* cleared; after that services come and go and the index is built again   *)
(* and again.                                                              *)
(***************************************************************************)
TableUntouched == hashmap = HashMapInit /\ hop = "clear"
IndexUntouched == catalog = <<>> /\ engine.trie_built_at = None

\* hashmap[n + 1] = 1 for a table of n entries
FillNext ==
    /\ IndexUntouched
    /\ MapLen(hashmap) < MaxFill
    /\ HSet(MapLen(hashmap) + 1, 1)

\* hashmap.clear()
ClearTable == IndexUntouched /\ HClear

\* an admin creates a service: it is approved at once
AdminCreates(service) ==
    /\ TableUntouched
    /\ CreateService(service.title, service.tags, TRUE)

\* a service is rejected
AdminRejects(service_id) == TableUntouched /\ RejectService(service_id)

\* search_engine._build_trie()
BuildTrieCall ==
    /\ TableUntouched
    /\ gen < MaxBuilds
    /\ engine' = BuildTrie(engine, catalog, now)
    /\ gen' = gen + 1
    /\ eret' = [op |-> "_build_trie"]
    /\ UNCHANGED <<cacheGen, envVars, managerVars, structVars, threadVars>>

NextIdem ==
    \/ FillNext
    \/ ClearTable
    \/ \E s \in NewServices : AdminCreates(s)
    \/ \E i \in 1..MaxServices : AdminRejects(i)
    \/ BuildTrieCall

Init ==
    /\ InitHashMap /\ InitHeap /\ InitTopN /\ InitQueue /\ InitTrie
    /\ InitEnv /\ InitEngine /\ InitManager /\ InitThreads

SpecHashMap == Init /\ [][NextHashMap]_vars
SpecHashOps == Init /\ [][NextHashOps]_vars
SpecHeap == Init /\ [][NextHeap]_vars
SpecTopN == Init /\ [][NextTopN]_vars
SpecQueue == Init /\ [][NextQueue]_vars
SpecEmpty == Init /\ [][NextEmpty]_vars
SpecTrie == Init /\ [][NextTrie]_vars
SpecEngine == Init /\ [][NextEngine]_vars
SpecFeatured == Init /\ [][NextFeatured]_vars
SpecEdit == Init /\ [][NextEdit]_vars
SpecThreads == Init /\ [][NextThreads]_vars
SpecIdem == Init /\ [][NextIdem]_vars
SpecLoad == Init /\ [][NextLoad]_vars
SpecLimits == Init /\ [][NextLimits]_vars

\* a step in which extract_max removed an entry
ExtractStep ==
    /\ maxheap.heap # <<>>
    /\ maxheap' # maxheap
    /\ hret'[1] = "extract_max"

(***************************************************************************)
(* Claims about HashMap                                                    *)
(***************************************************************************)
\* C1: a key that was never set, or was deleted (or cleared) and not set
\* again, is not contained and get on it raises KeyError.
C1_AbsentKeyNotFound ==
    \A k \in Keys :
        k \notin DOMAIN shadow =>
            /\ ~Contains(hashmap, k)
            /\ GetItem(hashmap, k) = <<"KeyError">>

\* a delete has just removed key 0 from the chain it shared with key 16
C1_Witness ==
    /\ hop = "delete"
    /\ 0 \notin DOMAIN shadow
    /\ INITIAL_CAPACITY \in DOMAIN shadow
    /\ hashmap.capacity = INITIAL_CAPACITY
    /\ ~Contains(hashmap, 0)

\* C2: whatever resizes happened, every key set (and not deleted) is
\* retrievable with the value last set for it, and len is their number.
C2_ResizeTransparent ==
    /\ \A k \in DOMAIN shadow : GetItem(hashmap, k) = <<"ok", shadow[k]>>
    /\ MapLen(hashmap) = Cardinality(DOMAIN shadow)

\* the 13th distinct key has just been set and doubled the table, two of
\* the keys shared a chain before the resize
C2_Witness ==
    /\ hop = "set"
    /\ hashmap.capacity = 2 * INITIAL_CAPACITY
    /\ Cardinality(DOMAIN shadow) = 13
    /\ HotKeys \subseteq DOMAIN shadow
    /\ shadow[0] = 2
    /\ GetItem(hashmap, 0) = <<"ok", 2>>

(***************************************************************************)
(* Claims about MaxHeap                                                    *)
(***************************************************************************)
\* C3: extract_max on a non-empty heap removes exactly one entry, the one it
\* returns, whose priority is the maximum of the priorities in the heap;
\* extractions with no insert in between return non-increasing priorities.
C3_ExtractReturnsMax ==
    [][/\ ExtractStep =>
            /\ hret'[2] \in Range(maxheap.heap)
            /\ \A x \in Range(maxheap.heap) : x[1] <= hret'[2][1]
            /\ Len(maxheap'.heap) = Len(maxheap.heap) - 1
            /\ Range(maxheap'.heap) = Range(maxheap.heap) \ {hret'[2]}
            /\ maxheap'.counter = maxheap.counter
       /\ (ExtractStep /\ hret[1] = "extract_max") =>
            hret'[2][1] <= hret[2][1]]_vars

\* an extraction from a heap built by interleaved inserts and extracts: the
\* entry returned was not the first inserted and outranks an entry left
C3_Witness ==
    /\ hret[1] = "extract_max"
    /\ maxheap.counter = MaxInserts
    /\ Len(maxheap.heap) = 3
    /\ hret[2][2] >= 2
    /\ \E x \in Range(maxheap.heap) : x[1] < hret[2][1]

\* C4 (as claimed): among the entries of highest priority, extract_max
\* returns the one inserted first.
C4_TiesFifo ==
    [][ExtractStep =>
          \A x \in Range(maxheap.heap) :
              x[1] = hret'[2][1] => hret'[2][2] <= x[2]]_vars

\* number of positions of q holding v
RECURSIVE Count(_, _)
Count(q, v) ==
    IF q = <<>> THEN 0
    ELSE (IF Head(q) = v THEN 1 ELSE 0) + Count(Tail(q), v)

\* C5: nlargest(n, iterable) returns min(n, len) items (none when n <= 0),
\* non-increasing, and they are the largest of the iterable as a multiset:
\* every value occurs in the result at most as often as in the iterable and
\* every value left out of it is at most the smallest returned;
\* nlargest(3, [3,1,4,1,5,9,2,6]) = [9,6,5].
C5_NLargest ==
    nlResult[1] = "done" =>
        LET n == nlArgs.n
            it == nlArgs.iterable
            res == nlResult[2]
        IN  /\ Len(res) = (IF n <= 0 THEN 0 ELSE Min(n, Len(it)))
            /\ \A i \in 1..(Len(res) - 1) : res[i] >= res[i + 1]
            /\ \A v \in Range(res) : Count(res, v) <= Count(it, v)
            /\ \A v \in Range(it) :
                   Count(res, v) < Count(it, v) =>
                       \A w \in Range(res) : v <= w
            /\ (n = 3 /\ it = ExampleIterable) => res = <<9, 6, 5>>

\* nlargest(3, [3,1,4,1,5,9,2,6]) has returned
C5_Witness ==
    /\ nlResult[1] = "done"
    /\ nlArgs.n = 3
    /\ nlArgs.iterable = ExampleIterable
    /\ nlResult[2] = <<9, 6, 5>>

(***************************************************************************)
(* Claims about Queue                                                      *)
(***************************************************************************)
\* C6: to_list() is always the sequence of values enqueued and not yet
\* dequeued, oldest first; a successful dequeue returns the oldest of them
\* and removes it, peek returns the oldest, and peek and to_list change
\* nothing in the queue.
C6_QueueIsFifo ==
    [][/\ ToList(queue) = fifo
       /\ ToList(queue') = fifo'
       /\ QueueLen(queue') = Len(fifo')
       /\ (qret'[1] = "dequeue" /\ fifo # <<>> /\ qret' # qret) =>
            /\ qret' = <<"dequeue", "ok", Head(fifo)>>
            /\ ToList(queue') = Tail(fifo)
       /\ (qret'[1] = "peek" /\ fifo # <<>>) =>
            /\ qret' = <<"peek", "ok", Head(fifo)>>
            /\ queue' = queue
       /\ qret'[1] = "to_list" =>
            /\ qret'[2] = fifo
            /\ queue' = queue]_vars

\* enqueue(1); enqueue(2); enqueue(1); dequeue() returned 1 and to_list()
\* is [2, 1]
C6_Witness ==
    /\ qret = <<"dequeue", "ok", 1>>
    /\ fifo = <<2, 1>>
    /\ ToList(queue) = <<2, 1>>
    /\ queue.front # None
    /\ queue.nodes[queue.rear].next = None

(***************************************************************************)
(* Claims about Trie                                                       *)
(***************************************************************************)
\* C7: get_suggestions(prefix, limit) returns at most limit strings, each
\* the word last inserted for its lowercased term, ordered by number of
\* insertions descending and, for equal numbers, shorter word first.
C7_SuggestionsRanked ==
    tret[1] = "get_suggestions" =>
        LET limit == tret[3]
            res == tret[4]
        IN  /\ Len(res) <= limit
            /\ \A i \in 1..Len(res) :
                   /\ Lower(res[i]) \in DOMAIN terms
                   /\ res[i] = terms[Lower(res[i])][2]
            /\ \A i, j \in 1..Len(res) :
                   i < j =>
                       LET ci == terms[Lower(res[i])][1]
                           cj == terms[Lower(res[j])][1]
                       IN  \/ ci > cj
                           \/ ci = cj /\ Len(res[i]) <= Len(res[j])

\* "abb" inserted twice, "ab" once and then as "Ab", "a" once:
\* get_suggestions("a", 2) cut three candidates down to ["Ab", "abb"]
C7_Witness ==
    /\ tret[1] = "get_suggestions"
    /\ tret[2] = <<97>>
    /\ tret[3] = 2
    /\ tret[4] = <<<<65, 98>>, <<97, 98, 98>>>>
    /\ <<97>> \in DOMAIN terms
    /\ terms[<<97, 98>>] = <<2, <<65, 98>>>>
    /\ terms[<<97, 98, 98>>][1] = 2

(***************************************************************************)
(* Claims about SearchEngine                                               *)
(***************************************************************************)
\* a step that is a call of get_autocomplete_suggestions changing the state
AutocompleteStep ==
    /\ eret'.op = "get_autocomplete_suggestions"
    /\ eret' # eret

\* C8: a query shorter than 2 characters returns [] and leaves the trie,
\* its build time and the suggestions cache as they were.
C8_ShortQueryNoEffect ==
    [][(AutocompleteStep /\ Len(eret'.query) < 2) =>
          /\ eret'.result = <<>>
          /\ engine' = engine]_vars

\* the one-character query "a" was answered while entries were cached and
\* the trie, built from a non-empty catalog, was older than its timeout
C8_Witness ==
    /\ eret.op = "get_autocomplete_suggestions"
    /\ eret.query = <<97>>
    /\ eret.result = <<>>
    /\ engine.suggestions_cache # EmptyFn
    /\ engine.trie_built_at # None
    /\ now - engine.trie_built_at > TRIE_TIMEOUT
    /\ StartsWith(engine.trie, <<97>>)

\* C10 (as claimed): no list cached before the latest rebuild of the trie is
\* returned: a call answered from the cache returns an entry stored since.
C10_RebuildInvalidatesCache ==
    (eret.op = "get_autocomplete_suggestions" /\ eret.hit) =>
        eret.storedGen = gen

(***************************************************************************)
(* Claims about ServiceManager                                             *)
(***************************************************************************)
\* C9 (as claimed): get_featured_services never returns a cached list whose
\* age now - timestamp is 300 seconds or more, ages of a day or longer
\* included.
C9_NoStaleHit ==
    (fret.op = "get_featured_services" /\ fret.hit) =>
        fret.age < CACHE_TIMEOUT

(***************************************************************************)
(* Claims about concurrent autocomplete requests                           *)
(***************************************************************************)
\* T lacks the title of an active, approved service of the catalog
PartialIndex(T, cat) ==
    \E i \in Range(ActiveApproved(cat)) : ~TrieSearch(T, cat[i].title)

\* C11 (as claimed): a call never computes its suggestions on a trie that
\* was reset and into which only part of the catalog has been inserted.
C11_NoPartialRead ==
    \A t \in Threads :
        threads[t].pc = "store" =>
            ~PartialIndex(threads[t].readTrie, threads[t].readCatalog)

(***************************************************************************)
(* Claims about the featured-services cache and catalog changes            *)
(***************************************************************************)
\* a step that is a call of get_featured_services
FeaturedStep ==
    /\ fret'.op = "get_featured_services"
    /\ <<manager, fret, basis>>' # <<manager, fret, basis>>

\* a step of the edit route that changes a row
EditStep ==
    /\ Len(catalog') = Len(catalog)
    /\ \E i \in 1..Len(catalog) : catalog'[i].title # catalog[i].title

\* C12: after create_service, approve_service, reject_service and
\* add_review the featured cache is empty; hence every list in the cache was
\* computed from the Service table as it is now, and the list a call returns
\* is the one computed from the current table, for every limit.
C12_MutationsClearCache ==
    /\ fret.op \in {"create_service", "approve_service", "reject_service",
                    "add_review"} => manager.cache = EmptyFn
    /\ \A l \in DOMAIN manager.cache :
            /\ manager.cache[l][1] = ComputeFeatured(catalog, l)
            /\ basis[l] = catalog
    /\ fret.op = "get_featured_services" =>
            /\ fret.result = ComputeFeatured(catalog, fret.limit)
            /\ fret.current

\* the second service was approved and then reviewed with the highest
\* rating; the call after that found the cache empty and ranked it first
C12_Witness ==
    /\ fret.op = "get_featured_services"
    /\ ~fret.hit
    /\ Len(catalog) = 2
    /\ catalog[2].score = MAX_RATING
    /\ catalog[1].score = MIN_RATING
    /\ fret.limit = 2
    /\ fret.result = <<2, 1>>
    /\ fret.current
    /\ DOMAIN manager.cache = {2}

\* C19: the cache is keyed by the exact limit: a call for n whose entry is
\* younger than the timeout returns that entry's list and leaves the entry
\* as it was; a call is answered from the cache only if an entry for its own
\* n exists; with no entry for n the list is computed from the Service table
\* and stored under n, whatever is cached for other limits.
C19_ExactLimitKeys ==
    fret.op = "get_featured_services" =>
        /\ (fret.had /\ fret.age < CACHE_TIMEOUT) => fret.hit
        /\ fret.hit => fret.had
        /\ fret.limit \in DOMAIN manager.cache
        /\ manager.cache[fret.limit][1] = fret.result
        /\ fret.hit => manager.cache[fret.limit][2] + fret.age <= now
        /\ ~fret.had =>
               /\ fret.result = ComputeFeatured(catalog, fret.limit)
               /\ Len(fret.result) =
                      Min(fret.limit, Len(ActiveApproved(catalog)))

\* a call for 1 was answered from the entry of 1 while the cache also held
\* the two-element list stored earlier for 2
C19_Witness ==
    /\ fret.op = "get_featured_services"
    /\ fret.limit = 1
    /\ fret.hit
    /\ fret.age = 0
    /\ Len(fret.result) = 1
    /\ DOMAIN manager.cache = {1, 2}
    /\ Len(manager.cache[2][1]) = 2
    /\ manager.cache[2][2] < manager.cache[1][2]

\* C13 (as claimed): get_featured_services never returns a list computed
\* before an edit of a record: the list returned was made of the Service
\* table as it is at the call.
C13_EditClearsCache ==
    [][(EditStep => manager'.cache = EmptyFn)
       /\ (FeaturedStep => fret'.current)]_vars

(***************************************************************************)
(* Claims about the lookups of Trie                                        *)
(***************************************************************************)
\* some term inserted so far begins with the lowercase form of prefix
SomeTermBegins(prefix) ==
    \E k \in DOMAIN terms :
        /\ Len(k) >= Len(prefix)
        /\ SubSeq(k, 1, Len(prefix)) = Lower(prefix)

\* C14 (as claimed): starts_with(prefix) is true iff some inserted term
\* begins with prefix, case-insensitively, the empty prefix included.
C14_StartsWithIffSomeTerm ==
    tret[1] = "starts_with" => (tret[3] <=> SomeTermBegins(tret[2]))

\* C14 (amended): starts_with of a non-empty prefix is true iff some inserted
\* term begins with it, case-insensitively; starts_with("") is false.
C14_StartsWithNonEmpty ==
    tret[1] = "starts_with" =>
        (tret[3] <=> (tret[2] # <<>> /\ SomeTermBegins(tret[2])))

\* starts_with("AB") is true when "abb" is the only term beginning with ab
C14_Witness ==
    /\ tret = <<"starts_with", <<65, 66>>, TRUE>>
    /\ <<97, 98>> \notin DOMAIN terms
    /\ <<97, 98, 98>> \in DOMAIN terms

\* C15: search(term) is true iff a non-blank term of the same lowercase
\* form has been inserted (a strict prefix of a term that was not inserted
\* itself is not found), and it leaves the trie as it was.
C15_SearchExact ==
    [][(tret'[1] = "search" /\ tret' # tret) =>
          /\ tret'[3] <=> (Lower(tret'[2]) \in DOMAIN terms)
          /\ trie' = trie]_vars

\* search("AB") found "ab" after "Ab" and "abb" were inserted, "a" was not
C15_Witness ==
    /\ tret = <<"search", <<65, 66>>, TRUE>>
    /\ terms[<<97, 98>>][2] = <<65, 98>>
    /\ <<97, 98, 98>> \in DOMAIN terms
    /\ <<97>> \notin DOMAIN terms
    /\ ~TrieSearch(trie, <<97>>)

\* C18: get_suggestions returns [] and leaves the trie as it was when the
\* prefix is empty or no path of the trie spells its lowercase form (no
\* inserted term begins with it).
C18_SuggestionsSilentEmpty ==
    [][(/\ tret'[1] = "get_suggestions"
        /\ tret' # tret
        /\ (tret'[2] = <<>> \/ ~SomeTermBegins(tret'[2]))) =>
          /\ tret'[4] = <<>>
          /\ trie' = trie]_vars

\* get_suggestions("", 2) returned [] from a trie holding two terms
C18_Witness ==
    /\ tret = <<"get_suggestions", <<>>, 2, <<>>>>
    /\ Cardinality(DOMAIN terms) >= 2
    /\ TrieLen(trie) >= 2

(***************************************************************************)
(* Claims about operations on empty structures                             *)
(***************************************************************************)
\* a heap operation other than insert was called
HeapReadStep ==
    /\ hret' # hret
    /\ hret'[1] \in {"extract_max", "peek", "IndexError"}

\* dequeue or peek was called on the queue
QueueReadStep ==
    /\ qret' # qret
    /\ qret'[1] \in {"dequeue", "peek"}

\* C16: extract_max and peek on an empty MaxHeap, and dequeue and peek on an
\* empty Queue, raise IndexError and leave the structure as it was; the
\* insert or enqueue that follows the failure makes the structure hold that
\* one element, as on a fresh one.
C16_EmptyFailsUnchanged ==
    [][/\ (HeapReadStep /\ maxheap.heap = <<>>) =>
              /\ HeapFailed'
              /\ maxheap' = maxheap
       /\ (HeapFailed /\ hret' = <<"insert">>) =>
              /\ Len(maxheap'.heap) = 1
              /\ maxheap'.counter = maxheap.counter + 1
              /\ HeapPeek(maxheap') = <<"ok", ExtractedEntry(maxheap')[3]>>
              /\ ExtractMax(maxheap').heap = <<>>
       /\ (QueueReadStep /\ queue.size = 0) =>
              /\ qret'[2] = "IndexError"
              /\ queue' = queue
       /\ (QueueFailed /\ qret'[1] \in {"enqueue", "append"}) =>
              /\ queue'.size = 1
              /\ queue'.front # None
              /\ queue'.front = queue'.rear
              /\ ToList(queue') = fifo'
              /\ Len(fifo') = 1]_vars

\* both structures were emptied after use, an operation failed on each, and
\* the queue then took one element
C16_Witness ==
    /\ maxheap.counter >= 2
    /\ maxheap.heap = <<>>
    /\ hret = <<"IndexError">>
    /\ qret = <<"enqueue">>
    /\ queue.size = 1
    /\ fifo = <<2>>

(***************************************************************************)
(* Claims about HashMap delete and get(key, default)                       *)
(***************************************************************************)
\* C17: del of an absent key raises KeyError (it raises exactly when the key
\* is absent) and leaves the table as it was; get(key, default) returns the
\* stored value of a present key and default for an absent one, and leaves
\* the table as it was.
C17_DeleteAbsentGetDefault ==
    [][/\ \A k \in OpKeys : DelFound(hashmap, k) <=> k \in DOMAIN shadow
       /\ hop' = "delete_KeyError" =>
              /\ hashmap' = hashmap
              /\ shadow' = shadow
       /\ (hop' = "get" /\ hgot' # hgot) =>
              /\ hashmap' = hashmap
              /\ hgot'[3] = IF hgot'[1] \in DOMAIN shadow
                            THEN shadow[hgot'[1]] ELSE hgot'[2]]_vars

\* get(16, 0) returned the value 2 stored under 16, which is in the middle
\* of the three-node chain of bucket 0
C17_Witness ==
    /\ hop = "get"
    /\ hgot = <<INITIAL_CAPACITY, 0, 2>>
    /\ Len(hashmap.buckets[0]) = 3
    /\ hashmap.buckets[0][2][1] = INITIAL_CAPACITY
    /\ MapLen(hashmap) = 3

\* C20: a query of two or more characters whose lowercase form is a key of
\* the cache gets the cached list, whatever its age and whether or not the
\* trie is stale: the engine is left as it was (no rebuild, no store); the
\* keys of the cache are lowercase, so queries that differ in case share one
\* entry.
C20_CachedUnconditionally ==
    [][AutocompleteStep =>
          /\ \A k \in DOMAIN engine'.suggestions_cache : Lower(k) = k
          /\ (/\ Len(eret'.query) >= 2
              /\ Lower(eret'.query) \in DOMAIN engine.suggestions_cache) =>
                 /\ eret'.hit
                 /\ ~eret'.rebuilt
                 /\ eret'.result =
                        engine.suggestions_cache[Lower(eret'.query)]
                 /\ engine' = engine
                 /\ gen' = gen]_vars

\* the query AB was answered from the entry stored for ab before a service
\* was added, while the trie was older than its timeout
C20_Witness ==
    /\ eret.op = "get_autocomplete_suggestions"
    /\ eret.query = <<65, 66>>
    /\ eret.hit
    /\ DOMAIN engine.suggestions_cache = {<<97, 98>>}
    /\ TrieStale(engine, now)
    /\ eret.result # GetSuggestions(BuildTrie(engine, catalog, now).trie,
                                    eret.query, eret.limit)

\* C21 (as claimed): on a cache miss, an index that is unbuilt or older than
\* 300 seconds, ages of a day or longer included, is rebuilt from the
\* services that are active and approved now, and the list returned is
\* looked up in that index; a younger index is not rebuilt.
C21_StaleIndexRebuilt ==
    [][(/\ AutocompleteStep
        /\ Len(eret'.query) >= 2
        /\ ~eret'.hit) =>
          LET old == \/ engine.trie_built_at = None
                     \/ now - engine.trie_built_at > TRIE_TIMEOUT
              fresh == InsertServices(TrieInit, catalog,
                                      ActiveApproved(catalog), 1)
          IN  /\ old => /\ eret'.rebuilt
                        /\ engine'.trie = fresh
                        /\ engine'.trie_built_at = now
                        /\ eret'.result =
                               GetSuggestions(fresh, eret'.query, eret'.limit)
              /\ ~old => /\ ~eret'.rebuilt
                         /\ engine'.trie = engine.trie
                         /\ engine'.trie_built_at = engine.trie_built_at]_vars

(***************************************************************************)
(* Claims about repeated calls                                             *)
(***************************************************************************)
\* the answers of every query of the trie T
TrieAnswers(T) ==
    [w \in Lookups |->
        <<TrieSearch(T, w), StartsWith(T, w),
          [l \in Limits |-> GetSuggestions(T, w, l)]>>]

\* C22: clear() leaves the table empty with 16 buckets, and a second clear()
\* leaves it as the first did; after _build_trie a second _build_trie from
\* the same Service table gives the same answer to every search,
\* starts_with, get_suggestions and len as the first.
C22_Idempotent ==
    [][/\ (hop' = "clear" /\ hashmap' # hashmap) =>
              /\ hashmap'.capacity = INITIAL_CAPACITY
              /\ MapLen(hashmap') = 0
              /\ MapItems(hashmap') = <<>>
              /\ ClearMap(hashmap') = hashmap'
       /\ (eret'.op = "_build_trie" /\ gen' # gen) =>
              LET again == BuildTrie(engine', catalog', now').trie
              IN  /\ TrieAnswers(again) = TrieAnswers(engine'.trie)
                  /\ TrieLen(again) = TrieLen(engine'.trie)]_vars

\* the table was cleared, and the index was built a second time after the
\* only service it held before was rejected and another was created
C22_Witness ==
    /\ TableUntouched
    /\ eret.op = "_build_trie"
    /\ gen = 2
    /\ Len(catalog) = 2
    /\ ~catalog[1].visible
    /\ TrieLen(engine.trie) = 1
    /\ fret.op = "create_service"

(***************************************************************************)
(* Claims about the invariants of the structures                           *)
(***************************************************************************)
Parent(i) == (i - 1) \div 2

\* the max-heap property of the array h
HeapOrdered(h) ==
    \A i \in 1..(Len(h) - 1) : At(h, i)[1] <= At(h, Parent(i))[1]

\* C23: after every insert and extract_max the priority at every index
\* i > 0 of the heap array is at most the priority at (i-1) div 2; sifting
\* up the entry appended by the next insert, and sifting down the entry put
\* at the root by the next extract_max, give an array with that property.
C23_HeapProperty ==
    /\ HeapOrdered(maxheap.heap)
    /\ \A p \in Prios :
           LET appended == Append(maxheap.heap, <<p, maxheap.counter, p>>)
           IN  HeapOrdered(HeapifyUp(appended, Len(appended) - 1))
    /\ Len(maxheap.heap) >= 2 =>
           LET swapped == Swap(maxheap.heap, 0, Len(maxheap.heap) - 1)
               popped == SubSeq(swapped, 1, Len(swapped) - 1)
           IN  HeapOrdered(HeapifyDown(popped, 0))

\* the entry just inserted was appended at index 3 or below and sifted up
\* to the root, past two levels
C23_Witness ==
    /\ hret = <<"insert">>
    /\ Len(maxheap.heap) >= 4
    /\ At(maxheap.heap, 0)[2] = maxheap.counter - 1
    /\ At(maxheap.heap, 1)[1] < At(maxheap.heap, 0)[1]

\* a bucket count the table can have: 16 doubled some number of times
RECURSIVE IsCapacity(_)
IsCapacity(c) ==
    \/ c = INITIAL_CAPACITY
    \/ /\ c > INITIAL_CAPACITY
       /\ c % 2 = 0
       /\ IsCapacity(c \div 2)

\* every node is in the chain of its key's bucket
WellPlaced(m) ==
    \A i \in 0..(m.capacity - 1) :
        \A j \in 1..Len(m.buckets[i]) : Hash(m, m.buckets[i][j][1]) = i

\* C24: after every set, delete and clear the size is at most 0.75 of the
\* bucket count; a set doubles the bucket count, once, exactly when it adds
\* a key that takes the ratio above 0.75, and then every entry is in the
\* chain of its bucket in the doubled table; the bucket count is 16 times a
\* power of two and gets smaller only in clear(), which makes it 16.
C24_LoadFactor ==
    [][/\ MapLen(hashmap') * ThresholdDen <= ThresholdNum * hashmap'.capacity
       /\ IsCapacity(hashmap'.capacity)
       /\ hop' = "set" =>
              LET pushed ==
                      /\ DOMAIN shadow' # DOMAIN shadow
                      /\ (MapLen(hashmap) + 1) * ThresholdDen >
                             ThresholdNum * hashmap.capacity
              IN  /\ hashmap'.capacity =
                         (IF pushed THEN 2 ELSE 1) * hashmap.capacity
                  /\ WellPlaced(hashmap')
                  /\ Range(MapItems(hashmap')) =
                         {<<k, shadow'[k]>> : k \in DOMAIN shadow'}
                  /\ MapLen(hashmap') = Cardinality(DOMAIN shadow')
       /\ hop' \in {"delete", "delete_KeyError"} =>
              hashmap'.capacity = hashmap.capacity
       /\ hop' = "clear" => hashmap'.capacity = INITIAL_CAPACITY
       /\ hashmap'.capacity < hashmap.capacity => hop' = "clear"]_vars

\* the 13th key has just been set and doubled the table: the keys that
\* shared two chains of six and seven nodes are in four chains now
C24_Witness ==
    /\ hop = "set"
    /\ hashmap.capacity = 2 * INITIAL_CAPACITY
    /\ MapLen(hashmap) = 13
    /\ Len(hashmap.buckets[LoadKey(1)]) = 4
    /\ Len(hashmap.buckets[0]) = 3

\* the keys of the chains, bucket by bucket
ChainKeys(m) ==
    [i \in 0..(m.capacity - 1) |->
        [j \in 1..Len(m.buckets[i]) |-> m.buckets[i][j][1]]]

\* C25: each key is in at most one node of all the chains, every node is in
\* the chain at index hash(key) mod bucket count, and the size is the number
\* of nodes; setting a key that is present changes the value of its node and
\* nothing else: the size and the place of every node stay.
C25_KeysUnique ==
    [][/\ LET nodes == MapItems(hashmap')
          IN  /\ \A i, j \in 1..Len(nodes) :
                     nodes[i][1] = nodes[j][1] => i = j
              /\ MapLen(hashmap') = Len(nodes)
       /\ WellPlaced(hashmap')
       /\ (hop' = "set" /\ DOMAIN shadow' = DOMAIN shadow) =>
              /\ MapLen(hashmap') = MapLen(hashmap)
              /\ hashmap'.capacity = hashmap.capacity
              /\ ChainKeys(hashmap') = ChainKeys(hashmap)
              /\ \A k \in DOMAIN shadow' :
                     GetItem(hashmap', k) = <<"ok", shadow'[k]>>]_vars

\* the table had grown to 32 buckets and lost its 13th key again when the
\* first key, in a chain of three, was set to 2
C25_Witness ==
    /\ hop = "set"
    /\ hashmap.capacity = 2 * INITIAL_CAPACITY
    /\ MapLen(hashmap) = 12
    /\ shadow[LoadKey(1)] = 2
    /\ Len(hashmap.buckets[LoadKey(1)]) = 3
    /\ GetItem(hashmap, LoadKey(1)) = <<"ok", 2>>

\* the reference reached from ref by following n next links
RECURSIVE Follow(_, _, _)
Follow(Q, ref, n) ==
    IF n = 0 \/ ref = None THEN ref
    ELSE Follow(Q, Q.nodes[ref].next, n - 1)

\* C26: front and rear are both None exactly when the size is 0; otherwise
\* size - 1 next links lead from front to rear, no fewer do, and the next
\* link of rear is None; a value enqueued on an empty queue, also one
\* emptied by dequeue, is the front element.
C26_QueuePointers ==
    /\ (queue.front = None) = (QueueLen(queue) = 0)
    /\ (queue.rear = None) = (QueueLen(queue) = 0)
    /\ QueueLen(queue) >= 0
    /\ QueueLen(queue) > 0 =>
           /\ Follow(queue, queue.front, QueueLen(queue) - 1) = queue.rear
           /\ \A n \in 0..(QueueLen(queue) - 2) :
                  Follow(queue, queue.front, n) \notin {queue.rear, None}
           /\ queue.nodes[queue.rear].next = None
    /\ QueueLen(queue) = 0 =>
           \A v \in QVals :
               /\ QueuePeek(Enqueue(queue, v)) = <<"ok", v>>
               /\ ToList(Enqueue(queue, v)) = <<v>>

\* dequeue has just returned the last element: front and rear are None
C26_Witness ==
    /\ qret[1] = "dequeue"
    /\ qret[2] = "ok"
    /\ queue.front = None
    /\ queue.rear = None
    /\ QueueLen(queue) = 0
    /\ fifo = <<>>

\* the terminal nodes of T
Terminals(T) == {p \in DOMAIN T.nodes : T.nodes[p].is_end}

\* C27: a node is terminal exactly when a non-blank term whose lowercase
\* form is its path was inserted, its counter is the number of those
\* insertions (0 for a node that is not terminal), and len is the number of
\* terminal nodes; inserting "" or a blank term changes nothing, and
\* inserting a term that is present adds one to its counter and changes no
\* other counter, no terminal flag, no node and not len.
C27_TrieBookkeeping ==
    /\ Terminals(trie) = DOMAIN terms
    /\ \A p \in DOMAIN trie.nodes :
           trie.nodes[p].frequency =
               (IF p \in DOMAIN terms THEN terms[p][1] ELSE 0)
    /\ TrieLen(trie) = Cardinality(Terminals(trie))
    /\ \A w \in TrieWords :
           LET T2 == TrieInsert(trie, w)
               p == Lower(w)
           IN  /\ IsBlank(w) => T2 = trie
               /\ (~IsBlank(w) /\ p \in DOMAIN terms) =>
                      /\ TrieLen(T2) = TrieLen(trie)
                      /\ DOMAIN T2.nodes = DOMAIN trie.nodes
                      /\ Terminals(T2) = Terminals(trie)
                      /\ T2.nodes[p].frequency = trie.nodes[p].frequency + 1
                      /\ \A q \in DOMAIN trie.nodes \ {p} :
                             T2.nodes[q] = trie.nodes[q]

\* "ab" was inserted three times, last as "Ab", and "abb" once: len is 2,
\* the node of "a" is not terminal
C27_Witness ==
    /\ tret = <<"insert", <<65, 98>>>>
    /\ DOMAIN terms = {<<97, 98>>, <<97, 98, 98>>}
    /\ terms[<<97, 98>>] = <<3, <<65, 98>>>>
    /\ trie.nodes[<<97, 98>>].frequency = 3
    /\ ~trie.nodes[<<97>>].is_end
    /\ TrieLen(trie) = 2

(***************************************************************************)
(* Claims about the candidates of get_suggestions                          *)
(***************************************************************************)
\* p comes before q in a pre-order walk that visits children in ascending
\* character order: p is a proper prefix of q, or is smaller at the first
\* character where they differ
RECURSIVE WalkedBefore(_, _)
WalkedBefore(p, q) ==
    IF q = <<>> THEN FALSE
    ELSE IF p = <<>> THEN TRUE
    ELSE IF Head(p) # Head(q) THEN Head(p) < Head(q)
    ELSE WalkedBefore(Tail(p), Tail(q))

\* the paths of S in the order of the walk
RECURSIVE InWalkOrder(_)
InWalkOrder(S) ==
    IF S = {} THEN <<>>
    ELSE LET first == CHOOSE p \in S : \A q \in S \ {p} : WalkedBefore(p, q)
         IN  <<first>> \o InWalkOrder(S \ {first})

\* the terms inserted that begin with the lowercased prefix
TermsUnder(prefix) ==
    {p \in DOMAIN terms :
        /\ Len(p) >= Len(prefix)
        /\ SubSeq(p, 1, Len(prefix)) = Lower(prefix)}

\* the first min(limit * 3, number of terms under the prefix) terms of the
\* walk, as (original word, count) pairs
Pool(prefix, limit) ==
    LET walk == InWalkOrder(TermsUnder(prefix))
    IN  [k \in 1..Min(limit * 3, Len(walk)) |->
            <<terms[walk[k]][2], terms[walk[k]][1]>>]

RankedBefore(p, q) ==
    \/ terms[p][1] > terms[q][1]
    \/ /\ terms[p][1] = terms[q][1]
       /\ \/ Len(p) < Len(q)
          \/ Len(p) = Len(q) /\ WalkedBefore(p, q)

\* the terms of S from the first ranked to the last
RECURSIVE Ranked(_)
Ranked(S) ==
    IF S = {} THEN <<>>
    ELSE LET first == CHOOSE p \in S : \A q \in S \ {p} : RankedBefore(p, q)
         IN  <<first>> \o Ranked(S \ {first})

\* the words of the first limit terms under the prefix, by rank
FirstRanked(prefix, limit) ==
    LET ranked == Ranked(TermsUnder(prefix))
    IN  [k \in 1..Min(limit, Len(ranked)) |-> terms[ranked[k]][2]]

\* every string returned is the word of a term under the prefix, and none
\* is returned twice
ReturnedAreTerms(prefix, res) ==
    /\ \A k \in 1..Len(res) :
           /\ Lower(res[k]) \in TermsUnder(prefix)
           /\ res[k] = terms[Lower(res[k])][2]
    /\ \A j, k \in 1..Len(res) : res[j] = res[k] => j = k

\* C30 (as claimed): whenever at most limit * 3 terms begin with the prefix,
\* the empty prefix included, get_suggestions returns the first limit of
\* them by rank.
C30_RankedTopLimit ==
    (/\ tret[1] = "get_suggestions"
     /\ Cardinality(TermsUnder(tret[2])) <= tret[3] * 3) =>
        /\ tret[4] = FirstRanked(tret[2], tret[3])
        /\ ReturnedAreTerms(tret[2], tret[4])

\* C30: for a non-empty prefix with at most limit * 3 terms beginning with
\* it, get_suggestions returns the first limit of those terms ordered by
\* count descending, then shorter length, then lexicographic order of the
\* lowercased term; every string returned is the word of an inserted term
\* that begins with the prefix when both are lowercased, and is returned
\* once; for the empty prefix the result is empty.
C30_RankedTopLimitNonEmpty ==
    (/\ tret[1] = "get_suggestions"
     /\ Cardinality(TermsUnder(tret[2])) <= tret[3] * 3) =>
        /\ tret[2] # <<>> => tret[4] = FirstRanked(tret[2], tret[3])
        /\ tret[2] = <<>> => tret[4] = <<>>
        /\ ReturnedAreTerms(tret[2], tret[4])

\* aa, ab and Ab were inserted once each, abb twice:
\* get_suggestions("A", 2) is ["Ab", "abb"], and "aa" is left out
C30_Witness ==
    /\ tret = <<"get_suggestions", <<65>>, 2,
                <<<<65, 98>>, <<97, 98, 98>>>>>>
    /\ TermsUnder(<<65>>) = {<<97, 97>>, <<97, 98>>, <<97, 98, 98>>}
    /\ terms[<<97, 97>>][1] = 1
    /\ terms[<<97, 98>>] = <<2, <<65, 98>>>>
    /\ terms[<<97, 98, 98>>][1] = 2

(***************************************************************************)
(* Claims about the limit of get_autocomplete_suggestions                  *)
(***************************************************************************)
\* C29 (as claimed): a list returned by get_autocomplete_suggestions(query,
\* limit) has at most limit entries, whatever calls came before.
C29_AtMostLimit ==
    eret.op = "get_autocomplete_suggestions" =>
        Len(eret.result) <= eret.limit

====
